---- MODULE Spec2Model ----
(***************************************************************************)
(* RecafMcpBridge (recaf_mcp_bridge/bridge.py): the stdio-to-HTTP bridge's *)
(* backend handle, its two TTL-bounded metadata caches, the four           *)
(* forwarding handlers and the run() lifecycle.                            *)
(*                                                                         *)
(* The handlers are coroutines: each runs atomically up to its single      *)
(* `await self.backend.<op>(...)`, is suspended there, and runs atomically *)
(* again from the backend's answer to its return.  Handler invocations    *)
(* interleave only at the await; the suspended ones are kept as a bag,     *)
(* since nothing tells two coroutines apart but what they wait for.        *)
(* _set_backend, _clear_metadata_cache and _cache_valid are synchronous.   *)
(*                                                                         *)
(* Spec    : the object driven through its methods (as the tests drive     *)
(*           it): _set_backend with any handle, the four handlers, the     *)
(*           clock.                                                        *)
(* RunSpec : the object driven by run(): connect, _set_backend(session),   *)
(*           initialize, serve, finally _set_backend(None).                *)
(***************************************************************************)
EXTENDS Integers, Sequences, FiniteSets, Bags, TLC

VARIABLES
    backend,              \* self.backend: a session, or NoBackend (None)
    tools_cache,          \* self._tools_cache: Optional list
    tools_cache_at,       \* self._tools_cache_at
    resources_cache,      \* self._resources_cache: Optional list
    resources_cache_at,   \* self._resources_cache_at
    now,                  \* the value time.monotonic() returns
    awaiting,             \* bag of the handler coroutines suspended at their await
    requests,             \* bag of <<session, operation>>: calls made, not yet answered
    phase,                \* where run() stands
    exit,                 \* how run() ended
    tools_src,            \* history: the session that produced tools_cache
    resources_src,        \* history: the session that produced resources_cache
    last                  \* history: the operation the last step completed, if any

codeVars  == <<backend, tools_cache, tools_cache_at, resources_cache, resources_cache_at>>
cacheVars == <<tools_cache, tools_cache_at, resources_cache, resources_cache_at>>
taskVars  == <<awaiting, requests>>
vars == <<backend, tools_cache, tools_cache_at, resources_cache, resources_cache_at,
          now, awaiting, requests, phase, exit,
          tools_src, resources_src, last>>

----------------------------------------------------------------------------
(* Bounds and constants *)

\* self._metadata_cache_ttl_seconds
TTL == 30

\* number of handler invocations that can be suspended together
NumTasks == 2

\* the clock is read at 0, at 1 and then at every value from TTL to MaxNow
MaxNow == 31

ClockReadings == {0, 1} \cup (TTL .. MaxNow)

NoBackend == "None"
Sessions  == {"A", "B"}
Handles   == Sessions \cup {NoBackend}

ListOps    == {"list_tools", "list_resources"}
ForwardOps == {"call_tool", "read_resource"}
Ops        == ListOps \cup ForwardOps

\* Optional[list]: None, or a list (the empty list is a list, not None)
NoneList  == [isNone |-> TRUE, val |-> <<>>]
Some(v)   == [isNone |-> FALSE, val |-> v]

\* what a session's list_tools() / list_resources() can answer (result.tools,
\* result.resources); the answer may differ from one call to the next
ToolsOf(b)     == IF b = "A" THEN {<<>>, <<"tool-a">>} ELSE {<<"tool-b">>}
ResourcesOf(b) == IF b = "A" THEN {<<"res-a">>} ELSE {<<"res-b">>}

\* what call_tool() can answer (result.content)
ContentLists == {<<>>, <<"c1", "c2">>}

\* what read_resource() can answer (result.contents): items with a text and/or
\* a blob attribute, each possibly empty
Absent == "<absent>"
TextItem  == [text |-> "T", blob |-> Absent]
BlobItem  == [text |-> Absent, blob |-> "B"]
EmptyItem == [text |-> "", blob |-> Absent]
ContentsLists == {<<>>, <<TextItem>>, <<BlobItem>>, <<EmptyItem, TextItem>>}

\* every shape of answer: up to MaxContents items, each with its text and its
\* blob attribute missing, empty or filled
MaxContents == 2
TextValues == {Absent, "", "T"}
BlobValues == {Absent, "", "B"}
Items == [text : TextValues, blob : BlobValues]
AllContentsLists == UNION {[1 .. n -> Items] : n \in 0 .. MaxContents}

----------------------------------------------------------------------------
(* History records *)

\* the operation a step completed: what it was, how it ended, what it returned,
\* the backend's answer it returned from, whether it called the backend, and the
\* session its value came from.  The handle active and the clock at its return
\* are backend and now of the same state.
Event(op, status, val, resp, invoked, src) ==
    [op |-> op, status |-> status, val |-> val, resp |-> resp, invoked |-> invoked,
     src |-> src]

\* the step completed no operation (a call was suspended, or the clock moved)
NoEvent == Event("none", "none", <<>>, <<>>, FALSE, NoBackend)

\* a _set_backend step: whether the handle changed, the kinds whose slots held
\* an entry when it was called, and the handle it replaced
Held ==
    (IF tools_cache.isNone THEN <<>> ELSE <<"list_tools">>)
    \o (IF resources_cache.isNone THEN <<>> ELSE <<"list_resources">>)

SetBackendEvent(h) ==
    Event("set_backend", IF h # backend THEN "changed" ELSE "same", Held, <<>>, FALSE, backend)

\* the provenance of a slot follows the slot
SrcAfter(slot, src) == IF slot.isNone THEN NoBackend ELSE src

----------------------------------------------------------------------------
(* The synchronous methods *)

cache_valid(cache_at) ==
    cache_at > 0 /\ (now - cache_at) < TTL

clear_metadata_cache ==
    /\ tools_cache' = NoneList
    /\ tools_cache_at' = 0
    /\ resources_cache' = NoneList
    /\ resources_cache_at' = 0

\* the handle is replaced and the caches are kept
set_backend_keeps_cache(h) ==
    /\ UNCHANGED cacheVars
    /\ backend' = h

\* the caches are cleared whatever the handle
set_backend_always_clears(h) ==
    /\ clear_metadata_cache
    /\ backend' = h

\* the caches are cleared by one step and the handle is assigned by a later one
set_backend_clears_first(h) ==
    IF h # backend /\ ~(tools_cache.isNone /\ resources_cache.isNone)
    THEN clear_metadata_cache /\ UNCHANGED backend
    ELSE UNCHANGED cacheVars /\ backend' = h

set_backend(h) ==
    /\ IF h # backend THEN clear_metadata_cache ELSE UNCHANGED cacheVars
    /\ backend' = h

Init ==
    /\ backend = NoBackend
    /\ tools_cache = NoneList
    /\ tools_cache_at = 0
    /\ resources_cache = NoneList
    /\ resources_cache_at = 0
    /\ now = 0
    /\ awaiting = EmptyBag
    /\ requests = EmptyBag
    /\ phase = "Idle"
    /\ exit = "none"
    /\ tools_src = NoBackend
    /\ resources_src = NoBackend
    /\ last = NoEvent

----------------------------------------------------------------------------
(* Coroutines suspended at `await self.backend.<op>()` *)

Coroutine(op, b) == [op |-> op, tgt |-> b]

Suspended(op) == {co \in BagToSet(awaiting) : co.op = op}

\* a call already in flight for the operation is shared instead of repeated
Suspend_shared(op) ==
    /\ BagCardinality(awaiting) < NumTasks
    /\ awaiting' = awaiting (+) SetToBag({Coroutine(op, backend)})
    /\ requests' = IF BagIn(<<backend, op>>, requests)
                   THEN requests
                   ELSE requests (+) SetToBag({<<backend, op>>})

\* the call self.backend.<op>(...) is made on the handle read at that moment,
\* and the coroutine waits for its answer
Suspend(op) ==
    /\ BagCardinality(awaiting) < NumTasks
    /\ awaiting' = awaiting (+) SetToBag({Coroutine(op, backend)})
    /\ requests' = requests (+) SetToBag({<<backend, op>>})

\* the awaited call is answered (a result, or an exception)
Resume(co) ==
    /\ BagIn(co, awaiting)
    /\ BagIn(<<co.tgt, co.op>>, requests)
    /\ awaiting' = awaiting (-) SetToBag({co})
    /\ requests' = requests (-) SetToBag({<<co.tgt, co.op>>})

----------------------------------------------------------------------------
(* _set_backend called on the object, and the clock *)

SetBackendStep(h) ==
    /\ set_backend(h)
    /\ tools_src' = SrcAfter(tools_cache', tools_src)
    /\ resources_src' = SrcAfter(resources_cache', resources_src)
    /\ last' = SetBackendEvent(h)

SetBackend(h) ==
    /\ SetBackendStep(h)
    /\ UNCHANGED <<now, awaiting, requests, phase, exit>>

Tick ==
    /\ \E n \in ClockReadings : n > now /\ now' = n
    /\ last' = NoEvent
    /\ UNCHANGED <<codeVars, taskVars, tools_src, resources_src, phase, exit>>

----------------------------------------------------------------------------
(* _list_tools *)

\* the cache is looked at before the handle is
list_tools_path_cache_first ==
    IF ~tools_cache.isNone /\ cache_valid(tools_cache_at) THEN "hit"
    ELSE IF backend = NoBackend THEN "raise"
    ELSE "fetch"

\* which way _list_tools goes before its await
list_tools_path ==
    IF backend = NoBackend THEN "raise"
    ELSE IF ~tools_cache.isNone /\ cache_valid(tools_cache_at) THEN "hit"
    ELSE "fetch"

\* one stamp for both slots
list_tools_store_shared_stamp(v) ==
    /\ tools_cache' = Some(v)
    /\ tools_cache_at' = now
    /\ resources_cache_at' = now
    /\ UNCHANGED <<backend, resources_cache>>

\* after the await: the result is stored and stamped
list_tools_store(v) ==
    /\ tools_cache' = Some(v)
    /\ tools_cache_at' = now
    /\ UNCHANGED <<backend, resources_cache, resources_cache_at>>

\* a failed call drops the handle
list_tools_raise_disconnects ==
    /\ backend' = NoBackend
    /\ UNCHANGED cacheVars

\* a failed refresh drops the entry
list_tools_raise_clears ==
    /\ tools_cache' = NoneList
    /\ tools_cache_at' = 0
    /\ UNCHANGED <<backend, resources_cache, resources_cache_at>>

\* the await raised: nothing after it runs
list_tools_raise ==
    UNCHANGED codeVars

ListToolsNotConnected ==
    /\ list_tools_path = "raise"
    /\ last' = Event("list_tools", "NotConnected", <<>>, <<>>, FALSE, NoBackend)
    /\ UNCHANGED <<codeVars, taskVars, now, phase, exit, tools_src, resources_src>>

\* a hit restamps the entry
list_tools_hit_slides ==
    /\ tools_cache_at' = now
    /\ UNCHANGED <<backend, tools_cache, resources_cache, resources_cache_at>>

\* the cached list is returned as it is
list_tools_hit ==
    UNCHANGED codeVars

ListToolsHit ==
    /\ list_tools_path = "hit"
    /\ list_tools_hit
    /\ last' = Event("list_tools", "ok", tools_cache.val, <<>>, FALSE, tools_src)
    /\ UNCHANGED <<taskVars, now, phase, exit, tools_src, resources_src>>

ListToolsFetch ==
    /\ list_tools_path = "fetch"
    /\ Suspend("list_tools")
    /\ UNCHANGED <<codeVars, now, phase, exit, tools_src, resources_src>>
    /\ last' = NoEvent

ListToolsStore(co, v) ==
    /\ co.op = "list_tools" /\ Resume(co)
    /\ v \in ToolsOf(co.tgt)
    /\ list_tools_store(v)
    /\ tools_src' = SrcAfter(tools_cache', co.tgt)
    /\ resources_src' = SrcAfter(resources_cache', resources_src)
    /\ last' = Event("list_tools", "ok", v, v, TRUE, co.tgt)
    /\ UNCHANGED <<now, phase, exit>>

ListToolsFail(co) ==
    /\ co.op = "list_tools" /\ Resume(co)
    /\ list_tools_raise
    /\ tools_src' = SrcAfter(tools_cache', tools_src)
    /\ resources_src' = SrcAfter(resources_cache', resources_src)
    /\ last' = Event("list_tools", "BackendFailure", <<>>, <<>>, TRUE, co.tgt)
    /\ UNCHANGED <<now, phase, exit>>

----------------------------------------------------------------------------
(* _list_resources *)

list_resources_path ==
    IF backend = NoBackend THEN "raise"
    ELSE IF ~resources_cache.isNone /\ cache_valid(resources_cache_at) THEN "hit"
    ELSE "fetch"

list_resources_store(v) ==
    /\ resources_cache' = Some(v)
    /\ resources_cache_at' = now
    /\ UNCHANGED <<backend, tools_cache, tools_cache_at>>

list_resources_raise ==
    UNCHANGED codeVars

ListResourcesNotConnected ==
    /\ list_resources_path = "raise"
    /\ last' = Event("list_resources", "NotConnected", <<>>, <<>>, FALSE, NoBackend)
    /\ UNCHANGED <<codeVars, taskVars, now, phase, exit, tools_src, resources_src>>

\* the cached list is returned as it is
list_resources_hit ==
    UNCHANGED codeVars

ListResourcesHit ==
    /\ list_resources_path = "hit"
    /\ list_resources_hit
    /\ last' = Event("list_resources", "ok", resources_cache.val, <<>>, FALSE, resources_src)
    /\ UNCHANGED <<taskVars, now, phase, exit, tools_src, resources_src>>

ListResourcesFetch ==
    /\ list_resources_path = "fetch"
    /\ Suspend("list_resources")
    /\ UNCHANGED <<codeVars, now, phase, exit, tools_src, resources_src>>
    /\ last' = NoEvent

ListResourcesStore(co, v) ==
    /\ co.op = "list_resources" /\ Resume(co)
    /\ v \in ResourcesOf(co.tgt)
    /\ list_resources_store(v)
    /\ tools_src' = SrcAfter(tools_cache', tools_src)
    /\ resources_src' = SrcAfter(resources_cache', co.tgt)
    /\ last' = Event("list_resources", "ok", v, v, TRUE, co.tgt)
    /\ UNCHANGED <<now, phase, exit>>

ListResourcesFail(co) ==
    /\ co.op = "list_resources" /\ Resume(co)
    /\ list_resources_raise
    /\ tools_src' = SrcAfter(tools_cache', tools_src)
    /\ resources_src' = SrcAfter(resources_cache', resources_src)
    /\ last' = Event("list_resources", "BackendFailure", <<>>, <<>>, TRUE, co.tgt)
    /\ UNCHANGED <<now, phase, exit>>

----------------------------------------------------------------------------
(* The call_tool and read_resource handlers *)

call_tool_path ==
    IF backend = NoBackend THEN "raise" ELSE "forward"

\* return result.content
call_tool_result(content) == content

\* a tool call invalidates the metadata
call_tool_effect_invalidates ==
    /\ clear_metadata_cache
    /\ UNCHANGED backend

\* nothing of the object is written by call_tool
call_tool_effect ==
    UNCHANGED codeVars

read_resource_path ==
    IF backend = NoBackend THEN "raise" ELSE "forward"

\* the str | bytes returned, as <<type, data>>
\* the blob is looked at before the text
read_payload_blob_first(contents) ==
    IF Len(contents) > 0
    THEN LET content == contents[1] IN
         IF content.blob # Absent /\ content.blob # "" THEN <<"blob", content.blob>>
         ELSE IF content.text # Absent /\ content.text # "" THEN <<"text", content.text>>
         ELSE <<"text", "">>
    ELSE <<"text", "">>

read_payload(contents) ==
    IF Len(contents) > 0
    THEN LET content == contents[1] IN
         IF content.text # Absent /\ content.text # "" THEN <<"text", content.text>>
         ELSE IF content.blob # Absent /\ content.blob # "" THEN <<"blob", content.blob>>
         ELSE <<"text", "">>
    ELSE <<"text", "">>

read_resource_effect ==
    UNCHANGED codeVars

CallToolNotConnected ==
    /\ call_tool_path = "raise"
    /\ last' = Event("call_tool", "NotConnected", <<>>, <<>>, FALSE, NoBackend)
    /\ UNCHANGED <<codeVars, taskVars, now, phase, exit, tools_src, resources_src>>

CallToolForward ==
    /\ call_tool_path = "forward"
    /\ Suspend("call_tool")
    /\ UNCHANGED <<codeVars, now, phase, exit, tools_src, resources_src>>
    /\ last' = NoEvent

CallToolReturn(co, content) ==
    /\ co.op = "call_tool" /\ Resume(co)
    /\ content \in ContentLists
    /\ call_tool_effect
    /\ tools_src' = SrcAfter(tools_cache', tools_src)
    /\ resources_src' = SrcAfter(resources_cache', resources_src)
    /\ last' = Event("call_tool", "ok", call_tool_result(content), content, TRUE, co.tgt)
    /\ UNCHANGED <<now, phase, exit>>

CallToolFail(co) ==
    /\ co.op = "call_tool" /\ Resume(co)
    /\ UNCHANGED codeVars
    /\ last' = Event("call_tool", "BackendFailure", <<>>, <<>>, TRUE, co.tgt)
    /\ UNCHANGED <<now, phase, exit, tools_src, resources_src>>

ReadResourceNotConnected ==
    /\ read_resource_path = "raise"
    /\ last' = Event("read_resource", "NotConnected", <<>>, <<>>, FALSE, NoBackend)
    /\ UNCHANGED <<codeVars, taskVars, now, phase, exit, tools_src, resources_src>>

ReadResourceForward ==
    /\ read_resource_path = "forward"
    /\ Suspend("read_resource")
    /\ UNCHANGED <<codeVars, now, phase, exit, tools_src, resources_src>>
    /\ last' = NoEvent

ReadResourceReturn(co, contents) ==
    /\ co.op = "read_resource" /\ Resume(co)
    /\ contents \in AllContentsLists
    /\ read_resource_effect
    /\ tools_src' = SrcAfter(tools_cache', tools_src)
    /\ resources_src' = SrcAfter(resources_cache', resources_src)
    /\ last' = Event("read_resource", "ok", read_payload(contents), contents, TRUE, co.tgt)
    /\ UNCHANGED <<now, phase, exit>>

ReadResourceFail(co) ==
    /\ co.op = "read_resource" /\ Resume(co)
    /\ UNCHANGED codeVars
    /\ last' = Event("read_resource", "BackendFailure", <<>>, <<>>, TRUE, co.tgt)
    /\ UNCHANGED <<now, phase, exit, tools_src, resources_src>>

----------------------------------------------------------------------------
(* The object driven through its methods *)

Call ==
    \/ ListToolsNotConnected
    \/ ListToolsHit
    \/ ListToolsFetch
    \/ ListResourcesNotConnected
    \/ ListResourcesHit
    \/ ListResourcesFetch
    \/ CallToolNotConnected
    \/ CallToolForward
    \/ ReadResourceNotConnected
    \/ ReadResourceForward

Answer ==
    \/ \E co \in Suspended("list_tools") : \E v \in ToolsOf(co.tgt) : ListToolsStore(co, v)
    \/ \E co \in Suspended("list_tools") : ListToolsFail(co)
    \/ \E co \in Suspended("list_resources") : \E v \in ResourcesOf(co.tgt) : ListResourcesStore(co, v)
    \/ \E co \in Suspended("list_resources") : ListResourcesFail(co)
    \/ \E co \in Suspended("call_tool") : \E content \in ContentLists : CallToolReturn(co, content)
    \/ \E co \in Suspended("call_tool") : CallToolFail(co)
    \/ \E co \in Suspended("read_resource") : \E contents \in ContentsLists : ReadResourceReturn(co, contents)
    \/ \E co \in Suspended("read_resource") : ReadResourceFail(co)

Next ==
    \/ \E h \in Handles : SetBackend(h)
    \/ Call
    \/ Answer
    \/ Tick

Spec == Init /\ [][Next]_vars

\* read_resource() alone, the backend answering with every shape of contents
ReadNext ==
    \/ \E h \in Handles : SetBackend(h)
    \/ ReadResourceNotConnected
    \/ ReadResourceForward
    \/ \E co \in Suspended("read_resource") : \E contents \in AllContentsLists : ReadResourceReturn(co, contents)
    \/ \E co \in Suspended("read_resource") : ReadResourceFail(co)

ReadSpec == Init /\ [][ReadNext]_vars

----------------------------------------------------------------------------
(* run(): connect, install the session, initialize, serve, release *)

\* the session run() opens
RunSession == "A"

\* the release covers the serve loop only
run_finally_serving_only ==
    IF phase = "Serving" THEN set_backend(NoBackend) ELSE UNCHANGED codeVars

\* the finally block
run_finally ==
    set_backend(NoBackend)

\* server.run() owns the handler coroutines: when it is left by an exception or
\* a cancellation they are cancelled at their await and never resumed
CancelHandlers ==
    /\ awaiting' = EmptyBag
    /\ requests' = EmptyBag

Release(how) ==
    /\ run_finally
    /\ tools_src' = SrcAfter(tools_cache', tools_src)
    /\ resources_src' = SrcAfter(resources_cache', resources_src)
    /\ last' = SetBackendEvent(NoBackend)
    /\ phase' = "Closing"
    /\ exit' = how

NoRelease(how, to) ==
    /\ phase' = to
    /\ exit' = how
    /\ last' = NoEvent
    /\ UNCHANGED <<codeVars, tools_src, resources_src>>

RunStart ==
    /\ phase = "Idle"
    /\ phase' = "Connecting"
    /\ last' = NoEvent
    /\ UNCHANGED <<codeVars, taskVars, now, exit, tools_src, resources_src>>

TransportOpened ==
    /\ phase = "Connecting"
    /\ phase' = "Opening"
    /\ last' = NoEvent
    /\ UNCHANGED <<codeVars, taskVars, now, exit, tools_src, resources_src>>

TransportFailed ==
    /\ phase = "Connecting"
    /\ NoRelease("connect_failed", "Done")
    /\ UNCHANGED <<taskVars, now>>

SessionFailed ==
    /\ phase = "Opening"
    /\ NoRelease("session_failed", "Closing")
    /\ UNCHANGED <<taskVars, now>>

\* the session is entered and initialize() is awaited, the handle not installed
SessionOpened_not_installed ==
    /\ phase = "Opening"
    /\ phase' = "Initializing"
    /\ last' = NoEvent
    /\ UNCHANGED <<codeVars, taskVars, now, exit, tools_src, resources_src>>

\* the session is entered, installed, and initialize() is awaited
SessionOpened ==
    /\ phase = "Opening"
    /\ SetBackendStep(RunSession)
    /\ phase' = "Initializing"
    /\ UNCHANGED <<taskVars, now, exit>>

\* a failed handshake releases the handle and run() connects again
InitializeFailed_retries ==
    /\ phase = "Initializing"
    /\ run_finally
    /\ tools_src' = SrcAfter(tools_cache', tools_src)
    /\ resources_src' = SrcAfter(resources_cache', resources_src)
    /\ last' = SetBackendEvent(NoBackend)
    /\ phase' = "Connecting"
    /\ exit' = "init_failed"
    /\ UNCHANGED <<taskVars, now>>

InitializeFailed ==
    /\ phase = "Initializing"
    /\ Release("init_failed")
    /\ UNCHANGED <<taskVars, now>>

InitializeOk ==
    /\ phase = "Initializing"
    /\ phase' = "Starting"
    /\ last' = NoEvent
    /\ UNCHANGED <<codeVars, taskVars, now, exit, tools_src, resources_src>>

StdioFailed ==
    /\ phase = "Starting"
    /\ Release("stdio_failed")
    /\ UNCHANGED <<taskVars, now>>

StdioOpened ==
    /\ phase = "Starting"
    /\ phase' = "Serving"
    /\ last' = NoEvent
    /\ UNCHANGED <<codeVars, taskVars, now, exit, tools_src, resources_src>>

\* the front-end loop ends; server.run() returns once its handlers have finished
ServeEnded ==
    /\ phase = "Serving"
    /\ awaiting = EmptyBag
    /\ Release("ended")
    /\ UNCHANGED <<taskVars, now>>

ServeFailed ==
    /\ phase = "Serving"
    /\ CancelHandlers
    /\ Release("error")
    /\ UNCHANGED now

\* run() is cancelled at whichever await it stands
Cancelled ==
    /\ phase \in {"Connecting", "Opening", "Initializing", "Starting", "Serving"}
    /\ CancelHandlers
    /\ IF phase \in {"Initializing", "Starting", "Serving"}
       THEN Release("cancelled")
       ELSE NoRelease("cancelled", IF phase = "Connecting" THEN "Done" ELSE "Closing")
    /\ UNCHANGED now

\* the session and the transport are left
Closed ==
    /\ phase = "Closing"
    /\ phase' = "Done"
    /\ last' = NoEvent
    /\ UNCHANGED <<codeVars, taskVars, now, exit, tools_src, resources_src>>

\* the handlers the front end runs while serving; the handle is present then,
\* so the not-connected branches cannot be taken
Serving == phase = "Serving"

RunNext ==
    \/ RunStart
    \/ TransportOpened
    \/ TransportFailed
    \/ SessionFailed
    \/ SessionOpened
    \/ InitializeFailed
    \/ InitializeOk
    \/ StdioFailed
    \/ StdioOpened
    \/ Serving /\ ListToolsHit
    \/ Serving /\ ListToolsFetch
    \/ Serving /\ ListResourcesHit
    \/ Serving /\ ListResourcesFetch
    \/ Serving /\ CallToolForward
    \/ Serving /\ ReadResourceForward
    \/ Serving /\ Answer
    \/ ServeEnded
    \/ ServeFailed
    \/ Cancelled
    \/ Closed
    \/ Tick

RunSpec == Init /\ [][RunNext]_vars

----------------------------------------------------------------------------
(* Properties *)

Slot(k)    == IF k = "list_tools" THEN tools_cache ELSE resources_cache
SlotAt(k)  == IF k = "list_tools" THEN tools_cache_at ELSE resources_cache_at
SlotSrc(k) == IF k = "list_tools" THEN tools_src ELSE resources_src

\* the number of coroutines of a bag that await operation op
InFlight(bag, op) ==
    BagCardinality([co \in {c \in BagToSet(bag) : c.op = op} |-> bag[co]])

\* the number of unanswered calls of operation op in a bag of requests
Outstanding(bag, op) ==
    BagCardinality([r \in {q \in BagToSet(bag) : q[2] = op} |-> bag[r]])

CachesEmpty ==
    /\ tools_cache.isNone /\ tools_cache_at = 0
    /\ resources_cache.isNone /\ resources_cache_at = 0

\* the step returned from a list call of kind k without awaiting the backend
ServedFromCache(k) ==
    last'.op = k /\ last'.status = "ok" /\ ~last'.invoked

\* C1: when a list call of either kind has just returned a value and a second
\* call of that kind follows with the handle and the clock unchanged, the
\* second call makes no backend call and returns the same sequence, at every
\* clock value, 0 included.
C1_RepeatServedFromCache ==
    [][ \A k \in ListOps :
          (last.op = k /\ last.status = "ok" /\ backend # NoBackend
              /\ backend' = backend /\ now' = now)
          => /\ InFlight(awaiting', k) <= InFlight(awaiting, k)
             /\ Outstanding(requests', k) <= Outstanding(requests, k)
             /\ (ServedFromCache(k) => last'.val = last.val) ]_vars

\* C2: a _set_backend call with a handle other than the current one leaves both
\* slots empty; the list call that follows it is not served from the cache but
\* calls the new handle's list operation, once.
C2_SwapClearsCaches ==
    /\ [](last.op = "set_backend" /\ last.status = "changed" => CachesEmpty)
    /\ [][ (last.op = "set_backend" /\ last.status = "changed" /\ backend # NoBackend)
           => \A k \in ListOps :
                /\ ~ServedFromCache(k)
                /\ InFlight(awaiting', k) > InFlight(awaiting, k)
                   => /\ CopiesIn(Coroutine(k, backend), awaiting')
                           = CopiesIn(Coroutine(k, backend), awaiting) + 1
                      /\ CopiesIn(<<backend, k>>, requests')
                           = CopiesIn(<<backend, k>>, requests) + 1
                      /\ Outstanding(requests', k) = Outstanding(requests, k) + 1 ]_vars

\* both slots held an entry younger than the TTL, the handle went from A to B,
\* and both slots are empty
C2_Witness ==
    /\ last.op = "set_backend" /\ last.status = "changed"
    /\ last.val = <<"list_tools", "list_resources">>
    /\ last.src = "A" /\ backend = "B"
    /\ now = 1
    /\ CachesEmpty

\* C3: a value returned by a list call was fetched from the handle that is
\* active when it is returned.
C3_ValueFromActiveBackend ==
    last.op \in ListOps /\ last.status = "ok" => last.src = backend

\* C4: a list call never returns an entry whose age is TTL or more; a call that
\* fetched has stored its result in the slot, stamped with the current clock;
\* and while the slot holds an entry of the active handle younger than the TTL,
\* no list call of that kind calls the backend.
C4_TtlExpiry ==
    /\ [](\A k \in ListOps :
            last.op = k /\ last.status = "ok"
            => IF last.invoked
               THEN Slot(k) = Some(last.val) /\ SlotAt(k) = now
               ELSE ~Slot(k).isNone /\ now - SlotAt(k) < TTL)
    /\ [][ \A k \in ListOps :
             (~Slot(k).isNone /\ now - SlotAt(k) < TTL
                 /\ backend # NoBackend /\ SlotSrc(k) = backend)
             => /\ InFlight(awaiting', k) <= InFlight(awaiting, k)
                /\ Outstanding(requests', k) <= Outstanding(requests, k) ]_vars

\* C5: with no handle, a call of any of the four operations ends with the
\* not-connected error, makes no backend call, and changes neither the handle
\* nor the caches.
C5_NotConnectedGuard ==
    [][ backend = NoBackend
        => /\ \A op \in Ops :
                /\ InFlight(awaiting', op) <= InFlight(awaiting, op)
                /\ Outstanding(requests', op) <= Outstanding(requests, op)
           /\ (last'.op \in Ops /\ awaiting' = awaiting)
                => /\ last'.status = "NotConnected"
                   /\ ~last'.invoked
                   /\ UNCHANGED <<codeVars, requests>> ]_vars

\* list_tools is refused for want of a handle although the tools slot holds an
\* entry
C5_Witness ==
    /\ last.op = "list_tools" /\ last.status = "NotConnected"
    /\ backend = NoBackend
    /\ ~tools_cache.isNone /\ tools_cache_at > 0 /\ now - tools_cache_at < TTL

\* C6: when the backend's list operation fails, the call ends with that
\* failure and writes nothing: neither the step that made the call nor the step
\* that received the failure changes a slot or a stamp, and a slot that was
\* empty stays empty, so that the list call that follows calls the backend.
C6_FailureLeavesCache ==
    [][ \A k \in ListOps :
          /\ InFlight(awaiting', k) > InFlight(awaiting, k) => UNCHANGED codeVars
          /\ (last'.op = k /\ last'.status = "BackendFailure")
                => /\ UNCHANGED codeVars
                   /\ InFlight(awaiting', k) = InFlight(awaiting, k) - 1
          /\ (last.op = k /\ last.status = "BackendFailure" /\ Slot(k).isNone)
                => ~ServedFromCache(k) ]_vars

\* list_tools failed while the tools slot held an entry of the active handle
\* younger than the TTL (stored by a concurrent call): the entry is still there
C6_Witness ==
    /\ last.op = "list_tools" /\ last.status = "BackendFailure"
    /\ backend = "A" /\ last.src = "A"
    /\ tools_cache = Some(<<"tool-a">>) /\ tools_cache_at = 1 /\ now = TTL

\* C7: whichever way run() ends once the session was installed, the finally
\* block has run when it ends: no handle, both slots empty.
C7_ReleasedOnEveryExit ==
    phase \in {"Closing", "Done"} => backend = NoBackend /\ CachesEmpty

\* run() was cancelled while serving, with both slots filled: the handle and
\* the slots are gone
C7_Witness ==
    /\ phase = "Closing" /\ exit = "cancelled"
    /\ last.op = "set_backend" /\ last.status = "changed" /\ last.src = RunSession
    /\ last.val = <<"list_tools", "list_resources">>
    /\ backend = NoBackend /\ CachesEmpty

\* C8 as stated: the handle is present only once the initialize handshake has
\* succeeded.
C8_HandleOnlyAfterHandshake ==
    backend # NoBackend => phase \in {"Starting", "Serving"}

\* C8 as the code has it: the session is installed when it is opened, before
\* initialize() is awaited; the handle is present exactly while the handshake
\* is pending, the front end is starting or serving, and is gone once the
\* handshake has failed.
C8_HandleFromOpenToRelease ==
    /\ phase \in {"Initializing", "Starting", "Serving"} => backend = RunSession
    /\ phase \notin {"Initializing", "Starting", "Serving"} => backend = NoBackend
    /\ exit = "init_failed" => backend = NoBackend

\* the handshake is pending and the session is already the handle
C8_Witness ==
    phase = "Initializing" /\ backend = RunSession /\ last.op = "set_backend"

\* C9: with a handle, every call_tool and read_resource call is made on the
\* backend (none is answered without an await, each answer consumes a call of
\* its own), no step of either changes a slot or a stamp, and call_tool returns
\* the backend's content list as it is.
C9_ForwardedUncached ==
    /\ [](last.op \in ForwardOps /\ last.status = "ok"
            => last.invoked /\ (last.op = "call_tool" => last.val = last.resp))
    /\ [][ \A op \in ForwardOps :
             /\ (backend # NoBackend /\ last'.op = op /\ awaiting' = awaiting)
                   => UNCHANGED vars
             /\ InFlight(awaiting', op) > InFlight(awaiting, op)
                   => /\ CopiesIn(<<backend, op>>, requests')
                           = CopiesIn(<<backend, op>>, requests) + 1
                      /\ UNCHANGED codeVars
             /\ (last'.op = op /\ InFlight(awaiting', op) < InFlight(awaiting, op))
                   => /\ Outstanding(requests', op) = Outstanding(requests, op) - 1
                      /\ UNCHANGED codeVars ]_vars

\* call_tool returned the backend's two-item content list while both slots
\* held an entry
C9_Witness ==
    /\ last.op = "call_tool" /\ last.status = "ok" /\ last.val = <<"c1", "c2">>
    /\ ~tools_cache.isNone /\ ~resources_cache.isNone

\* C10 as stated: list calls of one kind in flight together share one backend
\* call.
C10_SingleFlight ==
    \A k \in ListOps : Outstanding(requests, k) <= 1

\* C10 as the code has it: every list call that finds no valid entry makes a
\* backend call of its own; the calls of a kind in flight on a session are as
\* many as the coroutines awaiting them.
C10_OneFetchPerCall ==
    \A k \in ListOps : \A b \in Sessions :
        CopiesIn(<<b, k>>, requests) = CopiesIn(Coroutine(k, b), awaiting)

\* two list_tools calls are in flight on the same session, the slot empty
C10_Witness ==
    /\ CopiesIn(Coroutine("list_tools", "A"), awaiting) = 2
    /\ CopiesIn(<<"A", "list_tools">>, requests) = 2
    /\ backend = "A" /\ tools_cache.isNone

\* C11: a read_resource() call that the backend answers returns a payload and
\* never an error: the empty text when the answer has no items, and otherwise
\* what the first item alone decides: its text when it has a non-empty one, else
\* its blob when it has a non-empty one, else the empty text.
HasText(item) == item.text # Absent /\ item.text # ""
HasBlob(item) == item.blob # Absent /\ item.blob # ""
EmptyText == <<"text", "">>

C11_FirstItemDecides ==
    (last.op = "read_resource" /\ last.status = "ok") =>
        /\ last.val[1] \in {"text", "blob"}
        /\ last.resp = <<>> => last.val = EmptyText
        /\ last.resp # <<>> =>
              LET first == Head(last.resp) IN
              /\ HasText(first) => last.val = <<"text", first.text>>
              /\ ~HasText(first) /\ HasBlob(first) => last.val = <<"blob", first.blob>>
              /\ ~HasText(first) /\ ~HasBlob(first) => last.val = EmptyText

\* an empty text sends the call to the blob, and the second item's text is not used
C11_Witness ==
    /\ last.op = "read_resource" /\ last.status = "ok"
    /\ Len(last.resp) = 2
    /\ last.resp[1] = [text |-> "", blob |-> "B"]
    /\ last.resp[2] = [text |-> "T", blob |-> Absent]
    /\ last.val = <<"blob", "B">>

\* C12: _set_backend is one step among the steps of the four operations: the
\* state it leaves, which is the state the next step of any operation starts
\* from, has the new handle with both slots cleared when the handle was
\* replaced, and the old handle when it was not; the new handle with an entry
\* it found, or the old handle with the slots already cleared, is never seen.
C12_SwapIsOneStep ==
    last.op = "set_backend" =>
        /\ last.status = "changed" => backend # last.src /\ CachesEmpty
        /\ last.status = "same" => backend = last.src

\* the handle went from A to B over a full tools slot while a call_tool() and a
\* list_resources() were suspended
C12_Witness ==
    /\ last.op = "set_backend" /\ last.status = "changed"
    /\ last.val = <<"list_tools">>
    /\ last.src = "A" /\ backend = "B"
    /\ CopiesIn(Coroutine("call_tool", "A"), awaiting) = 1
    /\ CopiesIn(Coroutine("list_resources", "A"), awaiting) = 1
    /\ CachesEmpty

\* C13: in every state, whatever the interleaving, an absent handle goes with
\* two empty slots.
C13_AbsentImpliesEmpty ==
    backend = NoBackend => tools_cache.isNone /\ resources_cache.isNone

\* C14: no step of a list call of one kind (raise, hit, start of a fetch, store,
\* failure) changes the slot or the stamp of the other kind, or what the other
\* kind's next call would do.
StepOf(k) ==
    \/ last'.op = k
    \/ InFlight(awaiting', k) # InFlight(awaiting, k)

C14_SlotsIndependent ==
    [][ /\ StepOf("list_tools")
          => /\ UNCHANGED <<resources_cache, resources_cache_at>>
             /\ list_resources_path' = list_resources_path
        /\ StepOf("list_resources")
          => /\ UNCHANGED <<tools_cache, tools_cache_at>>
             /\ list_tools_path' = list_tools_path ]_vars

\* the tools slot expired and was refreshed at 30 while the resources entry of
\* clock 1 stayed as it was
C14_Witness ==
    /\ last.op = "list_tools" /\ last.status = "ok" /\ last.invoked
    /\ now = TTL /\ tools_cache_at = TTL
    /\ ~resources_cache.isNone /\ resources_cache_at = 1
    /\ list_resources_path = "hit"

\* C15: run() serves only after initialize() returned: Serving is entered from
\* Starting and Starting from Initializing, both with no failure recorded.  A
\* failure of the transport, of the session or of the handshake is final: from
\* then on run() only closes and ends with that failure; it never connects
\* again and never serves, and no handler takes a step outside Serving.
StartupFailures == {"connect_failed", "session_failed", "init_failed"}

C15_ServeOnlyAfterHandshake ==
    /\ [](exit \in StartupFailures
            => phase \in {"Closing", "Done"} /\ awaiting = EmptyBag)
    /\ [][ /\ (phase' = "Serving" /\ phase # "Serving")
              => phase = "Starting" /\ exit = "none"
           /\ (phase' = "Starting" /\ phase # "Starting")
              => phase = "Initializing" /\ exit = "none" /\ exit' = "none"
           /\ (phase' = "Connecting" /\ phase # "Connecting") => phase = "Idle"
           /\ exit # "none" => exit' = exit /\ phase' \in {"Closing", "Done"}
           /\ (\E k \in Ops : StepOf(k)) => phase = "Serving" ]_vars

\* run() has ended with the failure of the handshake
C15_Witness ==
    /\ phase = "Done" /\ exit = "init_failed"
    /\ last.op = "none"

\* C16: a _set_backend call with the handle that is already active (None over
\* None included) changes neither the handle nor a slot nor a stamp, so what a
\* list call of either kind would do is what it would have done before it; and
\* the list call that follows it, when the slot serves it, makes no backend call
\* and returns the slot's value (a step that leaves the number of suspended
\* calls as it was is a new call, not the answer to an earlier one).
ListPath(k) == IF k = "list_tools" THEN list_tools_path ELSE list_resources_path

C16_SameHandleChangesNothing ==
    /\ [][ (last'.op = "set_backend" /\ last'.status = "same")
              => /\ UNCHANGED codeVars
                 /\ \A k \in ListOps : ListPath(k)' = ListPath(k) ]_vars
    /\ [][ (last.op = "set_backend" /\ last.status = "same")
              => \A k \in ListOps :
                   ListPath(k) = "hit"
                   => /\ InFlight(awaiting', k) <= InFlight(awaiting, k)
                      /\ Outstanding(requests', k) <= Outstanding(requests, k)
                      /\ (last'.op = k /\ InFlight(awaiting', k) = InFlight(awaiting, k))
                         => ServedFromCache(k) /\ last'.val = Slot(k).val ]_vars

\* the active handle A was set again at clock 1 over two full slots, and a
\* tools call would still be served from its slot
C16_Witness ==
    /\ last.op = "set_backend" /\ last.status = "same"
    /\ last.val = <<"list_tools", "list_resources">>
    /\ last.src = "A" /\ backend = "A"
    /\ now = 1 /\ tools_cache_at = 1
    /\ list_tools_path = "hit"

\* C17: a list call served from the cache changes no stamp (and no slot), the
\* entry it returns is younger than the TTL by the stamp of its store, and while
\* a slot's entry is TTL old or older under a handle, no list call of that kind
\* is served from the cache: the call that comes calls the backend.
C17_NoSlidingExpiration ==
    /\ [][ \A k \in ListOps : ServedFromCache(k) => UNCHANGED codeVars ]_vars
    /\ [](\A k \in ListOps :
            (last.op = k /\ last.status = "ok" /\ ~last.invoked)
            => /\ ~Slot(k).isNone /\ last.val = Slot(k).val
               /\ now - SlotAt(k) < TTL)
    /\ [][ \A k \in ListOps :
             (~Slot(k).isNone /\ now - SlotAt(k) >= TTL /\ backend # NoBackend)
             => /\ ~ServedFromCache(k)
                /\ last'.op = k => last'.invoked
                /\ InFlight(awaiting', k) >= InFlight(awaiting, k)
                   => (StepOf(k) => InFlight(awaiting', k) = InFlight(awaiting, k) + 1) ]_vars

\* an entry stored at clock 1 was served at clock 30, one tick before it
\* expires, and its stamp is still 1
C17_Witness ==
    /\ last.op = "list_tools" /\ last.status = "ok" /\ ~last.invoked
    /\ now = TTL /\ tools_cache_at = 1
    /\ backend = "A" /\ last.src = "A"

\* C18: the handle has one value at every moment, a session or None; a step
\* that changes it is a _set_backend call with another handle; and no step of
\* list_tools, list_resources, call_tool or read_resource (raise, hit, start,
\* answer, failure) changes it.
C18_HandleChangedOnlyBySetBackend ==
    /\ [](backend \in Handles)
    /\ [][ backend' # backend
             => /\ last'.op = "set_backend" /\ last'.status = "changed"
                /\ last'.src = backend ]_vars
    /\ [][ (\E k \in Ops : StepOf(k)) => backend' = backend ]_vars

\* a call_tool() that B failed has returned, and a list_tools() is suspended on
\* B: the handle is still B
C18_Witness ==
    /\ last.op = "call_tool" /\ last.status = "BackendFailure" /\ last.src = "B"
    /\ CopiesIn(Coroutine("list_tools", "B"), awaiting) = 1
    /\ backend = "B"

====
